---- MODULE Spec2Model ----
(***************************************************************************)
(* Model of src/server.py: a Flask service that stores the latest location *)
(* of a phone number in a MongoDB collection (POST /api/location) and      *)
(* reads it back (GET /api/location/<phone>).                               *)
(*                                                                         *)
(* Strings are sequences of one-character tokens.  JSON / Python values    *)
(* are tagged records.  Coordinates range over whole degrees.              *)
(***************************************************************************)
EXTENDS Integers, Sequences, FiniteSets, TLC

\* Number of HTTP requests the service receives in one behaviour.
NumReq == 3
\* Longest digit run of the phone strings given to validate_phone.
MaxDigits == 17

VARIABLES
    collection,  \* the MongoDB collection: documents in natural order
    clock,       \* the last value datetime.utcnow() returned; every read
                 \* returns a later instant than the one before
    pc,          \* per request: "idle", "store", "find" or "done"
    req,         \* per request: the HTTP request being handled
    doc,         \* per request: the document prepared by update_location
    resp,        \* per request: the HTTP response
    exc,         \* per request: the exception raised while handling it
    calls,       \* per request: number of store operations attempted
    commits,     \* history: POST requests in the store's commit order
    before,      \* history: commits made before the handler started (POST)
                 \* or before it read the collection (GET)
    arg,         \* argument of the validation function under test
    ret          \* its outcome

vars == <<collection, clock, pc, req, doc, resp, exc, calls, commits, before, arg, ret>>

Requests == 1..NumReq

(***************************************************************************)
(* Python values                                                           *)
(***************************************************************************)
None == [t |-> "NoneType"]
PyInt(n) == [t |-> "int", huge |-> FALSE, v |-> n]
\* An int whose magnitude exceeds the largest finite double (e.g. 10**400).
PyHugeInt == [t |-> "int", huge |-> TRUE, v |-> 0]
PyFloat(n) == [t |-> "float", k |-> "fin", v |-> n]
PyNaN == [t |-> "float", k |-> "nan", v |-> 0]
PyInf(sign) == [t |-> "float", k |-> "inf", v |-> sign]
PyStr(s) == [t |-> "str", s |-> s]
PyBool(b) == [t |-> "bool", b |-> b]
PyList == [t |-> "list"]

(***************************************************************************)
(* Characters and strings                                                  *)
(***************************************************************************)
AsciiDigits == {"0", "1", "2", "3", "4", "5", "6", "7", "8", "9"}
\* "ar3" stands for U+0663 ARABIC-INDIC DIGIT THREE, a non-ASCII decimal digit.
UnicodeDigits == {"ar3"}
Whitespace == {" ", "\t", "\n"}

\* What the regular expression class \d matches in a str pattern.
IsDecimal(c) == c \in AsciiDigits \cup UnicodeDigits

DigitVal(c) ==
    CASE c = "0" -> 0 [] c = "1" -> 1 [] c = "2" -> 2 [] c = "3" -> 3
      [] c = "4" -> 4 [] c = "5" -> 5 [] c = "6" -> 6 [] c = "7" -> 7
      [] c = "8" -> 8 [] c = "9" -> 9 [] c = "ar3" -> 3

RECURSIVE LStrip(_)
LStrip(s) ==
    IF s # <<>> /\ Head(s) \in Whitespace THEN LStrip(Tail(s)) ELSE s

RECURSIVE RStrip(_)
RStrip(s) ==
    IF s # <<>> /\ s[Len(s)] \in Whitespace
    THEN RStrip(SubSeq(s, 1, Len(s) - 1))
    ELSE s

\* str.strip()
Strip(s) == RStrip(LStrip(s))

AllDecimal(s) == \A i \in 1..Len(s) : IsDecimal(s[i])

\* PHONE_REGEX.match(s) for PHONE_REGEX = ^\+?\d{7,15}$ ; "$" also matches
\* just before a newline that ends the string.
PHONE_REGEX_match(s) ==
    LET rest == IF s # <<>> /\ Head(s) = "+" THEN Tail(s) ELSE s
    IN  \E k \in 7..15 :
          /\ k <= Len(rest)
          /\ AllDecimal(SubSeq(rest, 1, k))
          /\ \/ k = Len(rest)
             \/ k = Len(rest) - 1 /\ rest[Len(rest)] = "\n"

validate_phone(phone) ==
    IF phone.t # "str" THEN FALSE ELSE PHONE_REGEX_match(Strip(phone.s))

(***************************************************************************)
(* float() and validate_lat_lon                                            *)
(***************************************************************************)
Fin(n) == [k |-> "fin", v |-> n]
Raised(e) == [exc |-> e, val |-> Fin(0)]
Returned(x) == [exc |-> "none", val |-> x]

RECURSIVE DigitsVal(_)
DigitsVal(s) ==
    IF s = <<>> THEN 0
    ELSE 10 * DigitsVal(SubSeq(s, 1, Len(s) - 1)) + DigitVal(s[Len(s)])

\* float(str): surrounding whitespace is ignored, then an optional sign and
\* decimal digits (strings here hold no '.', 'e', '_' or letters of inf/nan).
FloatOfStr(s) ==
    LET t == Strip(s)
        signed == t # <<>> /\ Head(t) \in {"+", "-"}
        digits == IF signed THEN Tail(t) ELSE t
    IN  IF digits # <<>> /\ AllDecimal(digits)
        THEN Returned(Fin(IF signed /\ Head(t) = "-"
                          THEN 0 - DigitsVal(digits) ELSE DigitsVal(digits)))
        ELSE Raised("ValueError")

\* float(x)
Float(x) ==
    CASE x.t = "NoneType" -> Raised("TypeError")
      [] x.t = "list" -> Raised("TypeError")
      [] x.t = "int" -> IF x.huge THEN Raised("OverflowError")
                        ELSE Returned(Fin(x.v))
      [] x.t = "float" -> Returned([k |-> x.k, v |-> x.v])
      [] x.t = "bool" -> Returned(Fin(IF x.b THEN 1 ELSE 0))
      [] x.t = "str" -> FloatOfStr(x.s)

\* a <= b on Python floats
FloatLe(a, b) ==
    CASE a.k = "nan" \/ b.k = "nan" -> FALSE
      [] a.k = "fin" /\ b.k = "fin" -> a.v <= b.v
      [] a.k = "inf" /\ b.k = "inf" -> a.v <= b.v
      [] a.k = "inf" -> a.v < 0
      [] OTHER -> b.v > 0

LatMax == 90
LonMax == 180

\* validate_lat_lon(lat, lon): the value returned, or the exception that
\* escapes the function (only TypeError and ValueError are caught).
validate_lat_lon(lat, lon) ==
    LET a == Float(lat)
        b == Float(lon)
        caught == {"TypeError", "ValueError"}
    IN  IF a.exc \in caught THEN Returned(FALSE)
        ELSE IF a.exc # "none" THEN [exc |-> a.exc, val |-> FALSE]
        ELSE IF b.exc \in caught THEN Returned(FALSE)
        ELSE IF b.exc # "none" THEN [exc |-> b.exc, val |-> FALSE]
        ELSE IF ~ (/\ FloatLe(Fin(0 - LatMax), a.val) /\ FloatLe(a.val, Fin(LatMax))
                   /\ FloatLe(Fin(0 - LonMax), b.val) /\ FloatLe(b.val, Fin(LonMax)))
        THEN Returned(FALSE)
        ELSE Returned(TRUE)

(***************************************************************************)
(* The collection                                                          *)
(***************************************************************************)
Matching(coll, phone) == {i \in 1..Len(coll) : coll[i].phone = phone}
First(S) == CHOOSE i \in S : \A j \in S : i <= j

\* An insert under the unique index on "phone" (create_index, unique=True).
InsertDoc(coll, d) ==
    IF Matching(coll, d.phone) # {}
    THEN [exc |-> "DuplicateKeyError", coll |-> coll]
    ELSE [exc |-> "none", coll |-> Append(coll, d)]

\* A careless variant: a plain insert_one of the prepared document.
update_one_insert(coll, phone, location, updated_at) ==
    InsertDoc(coll, [phone |-> phone, location |-> location,
                     updated_at |-> updated_at])

\* A careless variant: "$set" of the location only once the document exists.
update_one_location_only(coll, phone, location, updated_at) ==
    LET m == Matching(coll, phone)
    IN  IF m # {}
        THEN [exc |-> "none",
              coll |-> [coll EXCEPT ![First(m)].location = location]]
        ELSE InsertDoc(coll, [phone |-> phone, location |-> location,
                              updated_at |-> updated_at])

\* A careless variant: "$setOnInsert" in place of "$set".
update_one_set_on_insert(coll, phone, location, updated_at) ==
    IF Matching(coll, phone) # {}
    THEN [exc |-> "none", coll |-> coll]
    ELSE InsertDoc(coll, [phone |-> phone, location |-> location,
                          updated_at |-> updated_at])

\* collection.update_one({"phone": phone},
\*     {"$set": {"location": location, "updated_at": updated_at}}, upsert=True)
\* One atomic operation of the store on one document.
update_one(coll, phone, location, updated_at) ==
    LET m == Matching(coll, phone)
    IN  IF m # {}
        THEN [exc |-> "none",
              coll |-> [coll EXCEPT ![First(m)].location = location,
                                    ![First(m)].updated_at = updated_at]]
        ELSE InsertDoc(coll, [phone |-> phone, location |-> location,
                              updated_at |-> updated_at])

\* A careless variant: the filter is dropped, any document matches.
find_one_any(coll, phone) ==
    IF coll = <<>> THEN <<>> ELSE <<coll[1]>>

\* collection.find_one({"phone": phone}): <<>> for None, else <<document>>.
find_one(coll, phone) ==
    LET m == Matching(coll, phone)
    IN  IF m = {} THEN <<>> ELSE <<coll[First(m)]>>

\* Failures of the connection to the store (subclasses of PyMongoError).
StoreFailures == {"ServerSelectionTimeoutError"}

(***************************************************************************)
(* Responses                                                               *)
(***************************************************************************)
\* datetime.isoformat() + "Z"
IsoZ(ts) == [isoformat |-> ts, suffix |-> "Z"]

NoResp == [status |-> 0]
NoDoc == [phone |-> <<>>, location |-> [latitude |-> 0, longitude |-> 0],
          updated_at |-> 0]
NoReq == [method |-> "-"]

ErrNotJson == [status |-> 400, error |-> "Request body must be JSON"]
ErrMissing ==
    [status |-> 400,
     error |-> "Missing required fields: phone, latitude, longitude"]
ErrPhonePost ==
    [status |-> 400,
     error |-> "Invalid phone format. Use digits with optional leading '+', 7-15 digits."]
ErrLatLon ==
    [status |-> 400, error |-> "Invalid latitude/longitude range or format."]
ErrPhoneGet == [status |-> 400, error |-> "Invalid phone format."]
ErrNoLocation ==
    [status |-> 404, error |-> "No location found for this phone number"]
\* @app.errorhandler(500): what Flask answers when an exception escapes.
ErrInternal == [status |-> 500, error |-> "Internal server error"]

\* A careless variant: the failure is logged and the request reported stored.
StoreFailureIgnored(e) == [status |-> 200, error |-> "", details |-> e]

\* except PyMongoError as e: ... "Database error", "details": str(e) ... 500
StoreFailure(e) == [status |-> 500, error |-> "Database error", details |-> e]

Stored(d) ==
    [status |-> 200, message |-> "Location stored", phone |-> d.phone,
     location |-> d.location, updated_at |-> IsoZ(d.updated_at)]

Found(d) ==
    [status |-> 200, phone |-> d.phone,
     location |-> [latitude |-> d.location.latitude,
                   longitude |-> d.location.longitude],
     updated_at |-> IsoZ(d.updated_at)]

(***************************************************************************)
(* Requests the clients send                                               *)
(***************************************************************************)
PhoneA == <<"+", "1", "2", "3", "4", "5", "6", "7">>
PhoneAPadded == PhoneA \o <<" ">>
PhoneB == <<"1", "2", "3", "4", "5", "6", "7">>
PhoneShort == <<"1", "2", "3">>

PostBody(json, phone, lat, lon) ==
    [method |-> "POST", is_json |-> json, phone |-> phone,
     latitude |-> lat, longitude |-> lon]

\* Bodies the handler accepts: two keys, one of them also padded, and two
\* pairs of coordinates, one given as a string and an int on the boundary.
AcceptedBodies ==
    {PostBody(TRUE, PyStr(p), PyFloat(10), PyFloat(5)) :
        p \in {PhoneA, PhoneAPadded, PhoneB}}
      \cup {PostBody(TRUE, PyStr(PhoneA), PyStr(<<"9", "0">>), PyInt(0 - 180))}

\* Bodies the handler rejects, one or two defects each.
RejectedBodies ==
    { PostBody(FALSE, None, None, None),
      PostBody(TRUE, None, PyFloat(10), PyFloat(5)),
      PostBody(TRUE, PyStr(PhoneShort), PyFloat(10), None),
      PostBody(TRUE, PyStr(PhoneShort), PyFloat(91), PyFloat(5)),
      PostBody(TRUE, PyStr(PhoneA), PyFloat(91), PyFloat(5)),
      PostBody(TRUE, PyStr(PhoneA), PyFloat(10), PyStr(<<"a", "b", "c">>)),
      PostBody(TRUE, PyStr(PhoneA), PyHugeInt, PyFloat(5)) }

PostBodies == AcceptedBodies \cup RejectedBodies

GetPhones == {PhoneA, PhoneAPadded, PhoneB, PhoneShort}

GetRequest(phone) == [method |-> "GET", phone |-> phone]

(***************************************************************************)
(* The handlers                                                            *)
(***************************************************************************)
InitServer ==
    /\ collection = <<>>
    /\ clock = 0
    /\ pc = [r \in Requests |-> "idle"]
    /\ req = [r \in Requests |-> NoReq]
    /\ doc = [r \in Requests |-> NoDoc]
    /\ resp = [r \in Requests |-> NoResp]
    /\ exc = [r \in Requests |-> "none"]
    /\ calls = [r \in Requests |-> 0]
    /\ commits = <<>>
    /\ before = [r \in Requests |-> 0]

NotCalled == [done |-> FALSE, exc |-> "none", val |-> FALSE]

Init ==
    /\ InitServer
    /\ arg = <<>>
    /\ ret = NotCalled

\* Requests are numbered in the order the server starts handling them.
Arrives(r) ==
    /\ pc[r] = "idle"
    /\ \A q \in Requests : q < r => pc[q] # "idle"

Reply(r, answer) ==
    /\ pc' = [pc EXCEPT ![r] = "done"]
    /\ resp' = [resp EXCEPT ![r] = answer]

\* update_location, from the top to the prepared document (lines 58-85).
PostValidate(r, b) ==
    /\ Arrives(r)
    /\ req' = [req EXCEPT ![r] = b]
    /\ before' = [before EXCEPT ![r] = Len(commits)]
    /\ UNCHANGED <<collection, calls, commits, arg, ret>>
    /\ IF ~ b.is_json
       THEN Reply(r, ErrNotJson) /\ UNCHANGED <<clock, doc, exc>>
       ELSE IF b.phone = None \/ b.latitude = None \/ b.longitude = None
       THEN Reply(r, ErrMissing) /\ UNCHANGED <<clock, doc, exc>>
       ELSE IF ~ validate_phone(b.phone)
       THEN Reply(r, ErrPhonePost) /\ UNCHANGED <<clock, doc, exc>>
       ELSE LET valid == validate_lat_lon(b.latitude, b.longitude)
            IN  IF valid.exc # "none"
                THEN /\ Reply(r, ErrInternal)
                     /\ exc' = [exc EXCEPT ![r] = valid.exc]
                     /\ UNCHANGED <<clock, doc>>
                ELSE IF ~ valid.val
                THEN Reply(r, ErrLatLon) /\ UNCHANGED <<clock, doc, exc>>
                ELSE \E now \in {clock + 1} :
                       /\ clock' = now
                       /\ doc' = [doc EXCEPT ![r] =
                             [phone |-> Strip(b.phone.s),
                              location |->
                                [latitude |-> Float(b.latitude).val.v,
                                 longitude |-> Float(b.longitude).val.v],
                              updated_at |-> now]]
                       /\ pc' = [pc EXCEPT ![r] = "store"]
                       /\ UNCHANGED <<resp, exc>>

\* update_location, the store call and the answer (lines 87-103).
PostStore(r) ==
    /\ pc[r] = "store"
    /\ calls' = [calls EXCEPT ![r] = @ + 1]
    /\ LET d == doc[r]
           result == update_one(collection, d.phone, d.location, d.updated_at)
       IN  IF result.exc = "none"
           THEN /\ collection' = result.coll
                /\ commits' = Append(commits, r)
                /\ Reply(r, Stored(d))
                /\ UNCHANGED exc
           ELSE /\ exc' = [exc EXCEPT ![r] = result.exc]
                /\ Reply(r, StoreFailure(result.exc))
                /\ UNCHANGED <<collection, commits>>
    /\ UNCHANGED <<clock, req, doc, before, arg, ret>>

\* update_location when the driver raises a PyMongoError (lines 94-96).
PostStoreFails(r, e) ==
    /\ pc[r] = "store"
    /\ calls' = [calls EXCEPT ![r] = @ + 1]
    /\ exc' = [exc EXCEPT ![r] = e]
    /\ Reply(r, StoreFailure(e))
    /\ UNCHANGED <<collection, clock, req, doc, commits, before, arg, ret>>

\* get_latest_location (lines 111-131): the validation of the path parameter
\* touches nothing shared, so it is one step with the lookup.
GetLocation(r, phone) ==
    /\ Arrives(r)
    /\ req' = [req EXCEPT ![r] = GetRequest(phone)]
    /\ IF ~ validate_phone(PyStr(phone))
       THEN Reply(r, ErrPhoneGet) /\ UNCHANGED <<calls, before>>
       ELSE /\ calls' = [calls EXCEPT ![r] = @ + 1]
            /\ before' = [before EXCEPT ![r] = Len(commits)]
            /\ LET found == find_one(collection, phone)
               IN  IF found = <<>>
                   THEN Reply(r, ErrNoLocation)
                   ELSE Reply(r, Found(found[1]))
    /\ UNCHANGED <<collection, clock, doc, exc, commits, arg, ret>>

\* get_latest_location when the driver raises a PyMongoError (lines 116-118).
GetLocationFails(r, phone, e) ==
    /\ Arrives(r)
    /\ validate_phone(PyStr(phone))
    /\ req' = [req EXCEPT ![r] = GetRequest(phone)]
    /\ calls' = [calls EXCEPT ![r] = @ + 1]
    /\ before' = [before EXCEPT ![r] = Len(commits)]
    /\ exc' = [exc EXCEPT ![r] = e]
    /\ Reply(r, StoreFailure(e))
    /\ UNCHANGED <<collection, clock, doc, commits, arg, ret>>

Next ==
    \E r \in Requests :
       \/ \E b \in PostBodies : PostValidate(r, b)
       \/ PostStore(r)
       \/ \E e \in StoreFailures : PostStoreFails(r, e)
       \/ \E phone \in GetPhones : GetLocation(r, phone)
       \/ \E phone \in GetPhones, e \in StoreFailures : GetLocationFails(r, phone, e)

Spec == Init /\ [][Next]_vars

(***************************************************************************)
(* validate_phone on its own                                               *)
(***************************************************************************)
Repeat(c, n) == [i \in 1..n |-> c]

\* Digit runs of every length up to MaxDigits, of ASCII digits or of
\* non-ASCII decimal digits, and the same runs with one character replaced
\* at the start, in the middle or at the end.
DigitRuns ==
    LET runs == {Repeat(d, n) : d \in {"1", "ar3"}, n \in 0..MaxDigits}
        spoiled ==
          {[Repeat("1", n) EXCEPT ![k] = c] :
              n \in {7, 15}, k \in {1, 4, 7}, c \in {" ", "a", "+", "ar3", "\n"}}
    IN  runs \cup spoiled

PhoneArguments ==
    {PyStr(lead \o plus \o run \o trail) :
        lead \in {<<>>, <<" ">>}, plus \in {<<>>, <<"+">>},
        run \in DigitRuns, trail \in {<<>>, <<" ">>, <<"\n">>}}
      \cup {None, PyInt(1234567), PyList}

InitPhone ==
    /\ InitServer
    /\ arg \in {<<x>> : x \in PhoneArguments}
    /\ ret = NotCalled

CallValidatePhone ==
    /\ ~ ret.done
    /\ ret' = [done |-> TRUE, exc |-> "none", val |-> validate_phone(arg[1])]
    /\ UNCHANGED <<collection, clock, pc, req, doc, resp, exc, calls, commits,
                   before, arg>>

NextPhone == CallValidatePhone

SpecPhone == InitPhone /\ [][NextPhone]_vars

(***************************************************************************)
(* validate_lat_lon on its own                                             *)
(***************************************************************************)
CoordinateArguments ==
    {PyInt(n) : n \in {0 - 181, 0 - 180, 0 - 91, 0 - 90, 0, 90, 91, 180, 181}}
      \cup {PyFloat(n) : n \in {0 - 90, 37, 90, 91}}
      \cup {PyStr(s) : s \in {<<"9", "0">>, <<"-", "1", "8", "0">>,
                              <<" ", "4", "5", " ">>, <<"9", "1">>,
                              <<"a", "b", "c">>, <<>>, <<"-">>}}
      \cup {None, PyList, PyBool(TRUE), PyNaN, PyInf(1), PyInf(0 - 1), PyHugeInt}

InitLatLon ==
    /\ InitServer
    /\ arg \in CoordinateArguments \X CoordinateArguments
    /\ ret = NotCalled

CallValidateLatLon ==
    /\ ~ ret.done
    /\ LET out == validate_lat_lon(arg[1], arg[2])
       IN  ret' = [done |-> TRUE, exc |-> out.exc, val |-> out.val]
    /\ UNCHANGED <<collection, clock, pc, req, doc, resp, exc, calls, commits,
                   before, arg>>

NextLatLon == CallValidateLatLon

SpecLatLon == InitLatLon /\ [][NextLatLon]_vars

(***************************************************************************)
(* Vocabulary of the properties                                            *)
(***************************************************************************)
IsPost(r) == req[r].method = "POST"
IsGet(r) == req[r].method = "GET"
Done(r) == pc[r] = "done"

\* The key a committed POST wrote under: its phone, trimmed.
Key(r) == Strip(req[r].phone.s)

\* What request r submitted: its coordinates as numbers and the instant its
\* handler read from the clock.
Submitted(r) ==
    [location |-> [latitude |-> Float(req[r].latitude).val.v,
                   longitude |-> Float(req[r].longitude).val.v],
     updated_at |-> doc[r].updated_at]

\* Positions, among the first n commits, of the writes under key k.
CommitsOf(n, k) == {i \in 1..n : Key(commits[i]) = k}
Last(S) == CHOOSE i \in S : \A j \in S : j <= i
LastWriter(n, k) == commits[Last(CommitsOf(n, k))]
Position(r) == CHOOSE i \in 1..Len(commits) : commits[i] = r
Committed(r) == \E i \in 1..Len(commits) : commits[i] = r

\* The store operation of request r was attempted and raised.
StoreFailed(r) == calls[r] > 0 /\ exc[r] # "none"
\* A GET whose path parameter passed validation and whose lookup returned.
LookedUp(r) == IsGet(r) /\ Done(r) /\ calls[r] = 1 /\ exc[r] = "none"

\* The format the specification gives for a phone: a string that, trimmed, is
\* an optional '+' followed by 7 to 15 ASCII digits.
WellFormedPhone(x) ==
    /\ x.t = "str"
    /\ LET t == Strip(x.s)
           d == IF t # <<>> /\ Head(t) = "+" THEN Tail(t) ELSE t
       IN  /\ Len(d) >= 7 /\ Len(d) <= 15
           /\ \A i \in 1..Len(d) : d[i] \in AsciiDigits

\* x is a number (or parses as one) of magnitude at most bound.
NumberWithin(x, bound) ==
    CASE x.t = "int" -> ~ x.huge /\ 0 - bound <= x.v /\ x.v <= bound
      [] x.t = "float" -> x.k = "fin" /\ 0 - bound <= x.v /\ x.v <= bound
      [] x.t = "bool" -> TRUE
      [] x.t = "str" ->
           /\ FloatOfStr(x.s).exc = "none"
           /\ 0 - bound <= FloatOfStr(x.s).val.v
           /\ FloatOfStr(x.s).val.v <= bound
      [] OTHER -> FALSE

\* The coordinates the specification accepts.
CoordinatesValid(lat, lon) == NumberWithin(lat, 90) /\ NumberWithin(lon, 180)

(***************************************************************************)
(* C1                                                                      *)
(***************************************************************************)
\* C1: in every reachable state the collection holds at most one document per
\* phone, exactly one for every phone a POST was answered 200 for, and no
\* POST ends in a duplicate-key (constraint violation) error, concurrent
\* first-time writes for one new phone included.
C1_OneRecordPerPhone ==
    /\ \A i, j \in 1..Len(collection) :
          i # j => collection[i].phone # collection[j].phone
    /\ \A r \in Requests :
          IsPost(r) /\ Done(r) /\ resp[r].status = 200
             => Cardinality(Matching(collection, Key(r))) = 1
    /\ \A r \in Requests : exc[r] # "DuplicateKeyError"

\* Two POSTs for the same phone, both started before any commit, both stored.
C1_Witness ==
    \E r1, r2 \in Requests :
       /\ r1 # r2
       /\ IsPost(r1) /\ IsPost(r2) /\ Done(r1) /\ Done(r2)
       /\ resp[r1].status = 200 /\ resp[r2].status = 200
       /\ Key(r1) = Key(r2)
       /\ before[r1] = 0 /\ before[r2] = 0
       /\ Cardinality(Matching(collection, Key(r1))) = 1

(***************************************************************************)
(* C2                                                                      *)
(***************************************************************************)
\* C2: every stored document, and every document a GET answered with, has its
\* location and its updated_at from one single request, the one whose write
\* the store committed last (last before the GET read, for a GET).
C2_NoMixedRecord ==
    /\ \A i \in 1..Len(collection) :
          LET k == collection[i].phone
          IN  /\ CommitsOf(Len(commits), k) # {}
              /\ collection[i].location
                   = Submitted(LastWriter(Len(commits), k)).location
              /\ collection[i].updated_at
                   = Submitted(LastWriter(Len(commits), k)).updated_at
    /\ \A r \in Requests :
          LookedUp(r) /\ resp[r].status = 200
             => /\ CommitsOf(before[r], req[r].phone) # {}
                /\ resp[r].location
                     = Submitted(LastWriter(before[r], req[r].phone)).location
                /\ resp[r].updated_at
                     = IsoZ(Submitted(LastWriter(before[r], req[r].phone)).updated_at)

\* Two overlapping POSTs for one phone (the second committed started before
\* the first committed), then a GET that read the record.
C2_Witness ==
    \E r1, r2, g \in Requests :
       /\ Committed(r1) /\ Committed(r2) /\ Key(r1) = Key(r2)
       /\ Position(r1) < Position(r2)
       /\ before[r2] < Position(r1)
       /\ Submitted(r1) # Submitted(r2)
       /\ LookedUp(g) /\ resp[g].status = 200
       /\ req[g].phone = Key(r1)
       /\ before[g] >= Position(r2)

(***************************************************************************)
(* C3                                                                      *)
(***************************************************************************)
\* C3: the stored updated_at of a phone never decreases: every step that
\* replaces a document leaves its updated_at greater than or equal to the
\* one it replaces.
C3_UpdatedAtMonotonic ==
    [][\A i \in 1..Len(collection) :
          collection'[i].updated_at >= collection[i].updated_at]_vars

(***************************************************************************)
(* C4                                                                      *)
(***************************************************************************)
\* C4: a GET for an already trimmed phone that had a write committed before
\* the GET read the collection (and whose lookup returned) is answered 200
\* with the coordinates of the last write committed for that phone, whatever
\* was written before it or for other phones.
C4_ReadLatest ==
    \A r \in Requests :
       /\ LookedUp(r)
       /\ Strip(req[r].phone) = req[r].phone
       /\ CommitsOf(before[r], req[r].phone) # {}
       => /\ resp[r].status = 200
          /\ resp[r].phone = req[r].phone
          /\ resp[r].location
               = Submitted(LastWriter(before[r], req[r].phone)).location

\* A GET after two committed writes for its phone with different coordinates.
C4_Witness ==
    \E r1, r2, g \in Requests :
       /\ Committed(r1) /\ Committed(r2) /\ Key(r1) = Key(r2)
       /\ Position(r1) < Position(r2)
       /\ Submitted(r1).location # Submitted(r2).location
       /\ LookedUp(g) /\ req[g].phone = Key(r1)
       /\ before[g] >= Position(r2)
       /\ resp[g].status = 200
       /\ resp[g].location = Submitted(r2).location

(***************************************************************************)
(* C8                                                                      *)
(***************************************************************************)
\* C8: a request whose store operation failed made exactly one store call
\* and is answered 500 with error "Database error" and the failure message
\* as details (never 200); no request makes more than one store call, and a
\* failed write leaves no commit.
C8_StoreFailureReported ==
    \A r \in Requests :
       /\ calls[r] <= 1
       /\ StoreFailed(r)
            => /\ Done(r)
               /\ calls[r] = 1
               /\ resp[r].status = 500
               /\ resp[r].error = "Database error"
               /\ resp[r].details = exc[r]
               /\ ~ Committed(r)

\* A POST and a GET whose store operations both failed.
C8_Witness ==
    \E r, g \in Requests :
       /\ IsPost(r) /\ StoreFailed(r) /\ Done(r)
       /\ IsGet(g) /\ StoreFailed(g) /\ Done(g)

(***************************************************************************)
(* C9                                                                      *)
(***************************************************************************)
\* The handling of a GET: request r goes from idle to done as a GET.
GetStep(r) == pc[r] = "idle" /\ pc'[r] = "done" /\ req'[r].method = "GET"

\* C9: a GET with a well-formed phone for which no POST was committed before
\* the lookup (and whose lookup returned) is answered 404 with the error
\* "No location found for this phone number"; and no GET, whatever its
\* outcome, changes the collection.
C9_NotFoundAndReadOnly ==
    /\ [](\A r \in Requests :
            LookedUp(r) /\ CommitsOf(before[r], Strip(req[r].phone)) = {}
               => resp[r] = ErrNoLocation)
    /\ [][\A r \in Requests :
            GetStep(r) => collection' = collection /\ commits' = commits]_vars

\* A GET answered 404 while another phone has a record.
C9_Witness ==
    \E g \in Requests :
       /\ LookedUp(g)
       /\ CommitsOf(before[g], Strip(req[g].phone)) = {}
       /\ before[g] > 0
       /\ collection # <<>>
       /\ resp[g] = ErrNoLocation

(***************************************************************************)
(* C5                                                                      *)
(***************************************************************************)
MissingField(b) == b.phone = None \/ b.latitude = None \/ b.longitude = None

\* C5: a POST rejected by validation is answered 400 with the body of the
\* first failing check (missing field, then phone format, then coordinates)
\* and makes no store call, so no record is created or changed.
C5_RejectedNeverStored ==
    \A r \in Requests :
       IsPost(r) /\ Done(r) /\ req[r].is_json
       => LET b == req[r]
              untouched == calls[r] = 0 /\ ~ Committed(r)
              badPhone == ~ MissingField(b) /\ ~ WellFormedPhone(b.phone)
              badCoordinates ==
                 /\ ~ MissingField(b)
                 /\ WellFormedPhone(b.phone)
                 /\ ~ CoordinatesValid(b.latitude, b.longitude)
          IN  /\ MissingField(b) => (resp[r] = ErrMissing /\ untouched)
              /\ badPhone => (resp[r] = ErrPhonePost /\ untouched)
              /\ badCoordinates => (resp[r] = ErrLatLon /\ untouched)

(***************************************************************************)
(* C6                                                                      *)
(***************************************************************************)
\* C6: validate_phone(raw) is true exactly when raw is a string that, trimmed,
\* is an optional '+' followed by 7 to 15 ASCII digits and nothing else.
C6_ValidatePhoneExact ==
    ret.done => ret.exc = "none" /\ ret.val = WellFormedPhone(arg[1])

(***************************************************************************)
(* C7                                                                      *)
(***************************************************************************)
\* C7: validate_lat_lon(lat, lon) never raises and returns true exactly when
\* both arguments are numbers (or parse as numbers) with lat in [-90, 90]
\* and lon in [-180, 180], boundaries included.
C7_ValidateLatLonTotal ==
    ret.done => ret.exc = "none" /\ ret.val = CoordinatesValid(arg[1], arg[2])

(***************************************************************************)
(* C10                                                                     *)
(***************************************************************************)
\* C10: a GET whose phone passed validation and equals, after trimming, the
\* trimmed phone of a POST committed before the lookup finds that record
\* (200); a record found is the one whose key is the trimmed phone.
C10_SameNormalizedKey ==
    \A g \in Requests :
       LookedUp(g)
       => /\ CommitsOf(before[g], Strip(req[g].phone)) # {}
               => resp[g].status = 200
          /\ resp[g].status = 200 => resp[g].phone = Strip(req[g].phone)

====
